---- MODULE Spec2Model ----
(***************************************************************************)
(* CatPaymentBot: payment sessions, the status reconciliation driver, the  *)
(* transition handler and the subscription watchdog.                       *)
(*                                                                         *)
(* Time is counted in minutes.  One action is one awaited call of the      *)
(* source together with the synchronous code that follows it up to the     *)
(* next await, so that a task cancellation (close) can fall between any    *)
(* two awaited calls of a pass.                                            *)
(***************************************************************************)
EXTENDS Integers, Sequences, FiniteSets, TLC

\* ---------------------------------------------------------------- bounds
\* The last minute of the clock.
MaxTime == 4
\* Sessions created in a run of the reconciliation driver (Spec).
MaxSessions == 1
\* Checkouts issued when /pay runs alone (SpecPay).
MaxCheckouts == 2
\* Times the bot is started again after close().
MaxRestarts == 1
\* Sessions created when a pass handles several of them (SpecTwo).
MaxPassSessions == 2
\* Calls of upsert_subscription when the watchdog runs alone (SpecSweep).
MaxUpserts == 2
\* The last minute a sleep of the watchdog may end at (SpecSweep).
MaxSweepTime == 1500

\* ------------------------------------------------------------ constants
\* Settings.session_ttl_minutes (SESSION_TTL_MINUTES in the environment);
\* the model runs the bot configured with a one minute time-to-live.
session_ttl_minutes == 1
\* Settings.status_poll_interval, 60 seconds, in minutes.
status_poll_interval == 1
\* Settings.subscription_check_interval, 3600 seconds, in minutes.
subscription_check_interval == 60
MinutesPerDay == 1440

\* Python's None / a key that is absent from a JSON object.
None == "<none>"

\* The final statuses without the partial payment.
FINAL_STATUSES_PartialOpen == {"finished", "failed", "expired", "halted", "refunded"}

FINAL_STATUSES == {"finished", "paid partially", "failed", "expired", "halted", "refunded"}

\* The single guild and the requesters of the model.
Guild == "g"
Users == {1}

\* payment_profiles rows: id -> role_id, duration_days, parameters["webhook"].
\* role_id = 0 and duration_days = 0 stand for NULL.
ProfileTable ==
    <<[id |-> 1, guild_id |-> Guild, role_id |-> 7, duration_days |-> 1, webhook |-> "hook"],
      [id |-> 2, guild_id |-> Guild, role_id |-> 7, duration_days |-> 0, webhook |-> "hook"],
      [id |-> 3, guild_id |-> Guild, role_id |-> 0, duration_days |-> 2, webhook |-> None]>>
ProfileIds == 1..Len(ProfileTable)

\* ------------------------------------------------------ gateway responses
\* create_checkout: a JSON object with optional id, status, status_url, url.
CheckoutResponses ==
    [id : {"a", "", None}, status : {"Waiting", None},
     status_url : {"s", None}, url : {"u", None}]

\* fetch_status: a JSON object with an optional status and other raw fields,
\* a JSON value that is no object, or an AnonpayError.
FetchStatuses == {"waiting", "paid partially", "finished", "failed"}
StatusPayloads == [status : FetchStatuses \cup {None}, kind : {"status"}]
FetchOutcomes == {"ok", "AnonpayError", "not_an_object"}

\* str.lower() on the status strings of the model.
Lower(s) ==
    CASE s = "Waiting" -> "waiting"
      [] s = "Finished" -> "finished"
      [] OTHER -> s

\* str(response.get(key)): a missing key prints as the text "None".
Str(v) == IF v = None THEN "None" ELSE v

\* dict.get(key, default)
Get(v, default) == IF v = None THEN default ELSE v

VARIABLES
    now,          \* utc_now(), in minutes
    sessions,     \* table payment_sessions: a set of rows
    subs,         \* table subscriptions: a set of rows
    profiles,     \* ids of the rows of payment_profiles
    seq,          \* AUTOINCREMENT counters of the two tables
    closed,       \* close() has run and the bot was not started again
    restarts,     \* number of times the bot was started again
    poll,         \* the payment-status-poll task: position and locals
    pass,         \* bookkeeping of the current reconciliation pass
    hist,         \* per session: what was persisted and which effects ran
    dog,          \* the subscription-watchdog task: position and locals
    sent,         \* per subscription: its last "expiring soon" dispatch
    handles,      \* whether the gateway client and the store connection are open
    tasks,        \* the number of live tasks of each driver
    last_call,    \* how the last call of start_payment_session went
    request       \* the arguments and the gateway request of a call of start_payment_session

vars == <<now, sessions, subs, profiles, seq, closed, restarts, poll, pass, hist, dog, sent,
          handles, tasks, last_call, request>>

SessionIds == 1..(MaxSessions + MaxCheckouts + MaxPassSessions)
SubscriptionIds == 1..MaxUpserts

RowIds(rows) == {r.id : r \in rows}
RowById(rows, id) == CHOOSE r \in rows : r.id = id

NoPayload == [status |-> None, kind |-> None]

\* The locals of the poll task outside a pass.  handler, granted, upsert_at
\* and notices record what the transition handler did for the session at
\* hand: whether it is running or returned, whether add_roles was called,
\* when the subscription was upserted, how many direct notices were sent;
\* hook and activation say whether the post of the raw payload and the post
\* of the activation event were made ("posted") or raised AnonpayError
\* ("failed"), and posts counts the calls of post_webhook.
IdleLocals ==
    [sessions |-> <<>>, idx |-> 0, previous_status |-> None, status |-> None,
     payload |-> NoPayload, handler |-> "none", guild |-> FALSE, profile |-> 0,
     webhook_url |-> None, role |-> FALSE, granted |-> FALSE, upsert_at |-> -1,
     notices |-> 0, hook |-> "none", activation |-> "none", posts |-> 0]

At(pc) == [pc |-> pc] @@ IdleLocals

\* Per session: a change to 'finished' was persisted; how often
\* _handle_successful_payment was entered, a role grant was attempted and the
\* partial-payment notice was sent.
NoHist == [finished_persisted |-> FALSE, success |-> 0, grant |-> 0, partial |-> 0]

\* Per pass: the stored sessions that were past their expiry with a status
\* that is not final when the pass loaded, and those of them whose expiry
\* lay more than two time-to-live periods back; the sessions it loaded, those it
\* polled, those whose poll failed (with their expiry), those whose poll
\* failed in the pass before, those whose change to 'paid partially' it
\* persisted; how it ended.
NoPass == [expired |-> {}, stale |-> {}, loaded |-> {}, fetched |-> {}, failed |-> {},
           prev_failed |-> {}, partial |-> {}, outcome |-> "none"]

\* The locals of the watchdog task outside a sweep: the reference time of the
\* sweep, the rows of the list it walks and its position in it; for the
\* expired subscription at hand, whether the guild resolved, whether role and
\* member resolved, and whether remove_roles was called and the "expired"
\* webhook was posted.
DogAt(pc) == [pc |-> pc, now |-> 0, rows |-> <<>>, idx |-> 0, guild |-> FALSE,
              resolved |-> FALSE, revoked |-> FALSE, posted |-> FALSE]

\* Per subscription, since it was created or renewed: the number of its
\* "expiring soon" dispatches, the minute of the last one (-1 when there was
\* none) and the run of the bot, counted by restarts, that made it; the
\* number of calls of remove_roles made for it.
NoDispatch == [n |-> 0, at |-> -1, run |-> 0, revokes |-> 0]

\* The last call of start_payment_session: whether create_checkout returned
\* (ok), whether the response had a status_url, a url and an id that is not
\* empty (complete), and whether the call raised AnonpayError.
NoCall == [ok |-> TRUE, complete |-> TRUE, raised |-> FALSE]

\* No call of start_payment_session was followed to its gateway request.
NoRequest == [guild_settings |-> None, parameters |-> None, params |-> None, built |-> FALSE]

\* A create_checkout response with both URLs and an id that is not empty.
Complete(response) ==
    response.id /= "" /\ response.status_url /= None /\ response.url /= None

\* A stored session past its local expiry whose status is not terminal.
PastExpiry(r, t) ==
    r.expires_at < t /\ r.status \notin {"finished", "paid partially", "failed",
                                         "expired", "halted", "refunded"}

\* A stored session whose expiry lies more than two time-to-live periods back.
LongPastExpiry(r, t) == r.expires_at + 2 * session_ttl_minutes < t

Init ==
    /\ now = 0
    /\ sessions = {}
    /\ subs = {}
    /\ profiles = ProfileIds
    /\ seq = [session |-> 0, subscription |-> 0]
    /\ closed = FALSE
    /\ restarts = 0
    /\ poll = At("ready")
    /\ pass = NoPass
    /\ hist = [i \in SessionIds |-> NoHist]
    /\ dog = DogAt("ready")
    /\ sent = [i \in SubscriptionIds |-> NoDispatch]
    /\ handles = [anonpay |-> TRUE, db |-> TRUE]
    /\ tasks = [status |-> 1, subscription |-> 1]
    /\ last_call = NoCall
    /\ request = NoRequest

\* The clock advances by one minute.
Tick ==
    /\ now < MaxTime
    /\ now' = now + 1
    /\ UNCHANGED <<sessions, subs, profiles, seq, closed, restarts, poll, pass, hist, dog, sent, handles, tasks, last_call, request>>

\* Time passes while the poll task awaits a call of a pass, or while the bot
\* is down; between two passes the task sleeps status_poll_interval.
Elapse ==
    /\ poll.pc \notin {"ready", "sleep"}
    /\ Tick

\* Database.create_payment_session: INSERT of a new row under the next id.
create_payment_session(rows, id, guild_id, user_id, profile_id, anonpay_id, status, webhook_url, expires_at, payload, t) ==
    rows \cup {[id |-> id, guild_id |-> guild_id, user_id |-> user_id,
                payment_profile_id |-> profile_id, anonpay_id |-> anonpay_id,
                status |-> status, webhook_url |-> webhook_url,
                expires_at |-> expires_at, last_status_check |-> t,
                last_payload |-> payload]}

\* A response is accepted on its id alone.
CheckoutAccepted_IdOnly(response) == Str(response.id) /= ""

\* PaymentManager.start_payment_session after create_checkout returned response:
\* TRUE when the response is accepted and a row is written.
CheckoutAccepted(response) ==
    /\ Str(response.id) /= ""
    /\ response.status_url /= None
    /\ response.url /= None

\* /pay: start_payment_session for a requester and a profile; the gateway
\* call fails (ok = FALSE) or returns response.
pay(user, p, ok, response, limit) ==
    /\ ~closed
    /\ seq.session < limit
    /\ p \in profiles
    /\ IF ok /\ CheckoutAccepted(response)
       THEN /\ sessions' = create_payment_session(sessions, seq.session + 1, Guild, user, p,
                               Str(response.id), Get(response.status, "waiting"),
                               ProfileTable[p].webhook, now + session_ttl_minutes,
                               [status |-> response.status, kind |-> "checkout"], now)
            /\ seq' = [seq EXCEPT !.session = @ + 1]
       ELSE UNCHANGED <<sessions, seq>>
    /\ last_call' = [ok |-> ok, complete |-> ok /\ Complete(response),
                     raised |-> ~(ok /\ CheckoutAccepted(response))]
    /\ UNCHANGED <<now, subs, profiles, closed, restarts, poll, pass, hist, dog, sent, handles, tasks, request>>

\* ------------------------------------------------ reconciliation driver
\* Database.list_active_sessions under the cutoff of load_active_sessions.
load_active_sessions(rows, t) ==
    {r \in rows : r.expires_at >= t - session_ttl_minutes * 2}

\* The in-memory PaymentSession built from a row (the fields a pass reads).
PaymentSession(r) ==
    [id |-> r.id, guild_id |-> r.guild_id, user_id |-> r.user_id,
     profile_id |-> r.payment_profile_id, status |-> r.status,
     webhook_url |-> r.webhook_url, expires_at |-> r.expires_at]

\* The rows of a table in rowid order.
InIdOrder(rows) ==
    CHOOSE q \in [1..Cardinality(rows) -> rows] :
        \A i, j \in 1..Cardinality(rows) : i < j => q[i].id < q[j].id

\* The session a pass is working on.
Cur == poll.sessions[poll.idx]

\* The local expiry test with the comparison turned round.
IsExpiredLocally_Reversed(session, previous_status, t) ==
    session.expires_at > t /\ previous_status \notin FINAL_STATUSES

\* bot.py:482, the local expiry test.
IsExpiredLocally(session, previous_status, t) ==
    session.expires_at < t /\ previous_status \notin FINAL_STATUSES

\* Database.delete_payment_session
purge_session(rows, id) == {r \in rows : r.id /= id}

\* Database.update_payment_session_status: UPDATE ... WHERE id = ?
update_payment_session_status(rows, id, status, payload, t) ==
    {IF r.id = id
     THEN [r EXCEPT !.status = status, !.last_status_check = t, !.last_payload = payload]
     ELSE r : r \in rows}

\* services.py:167, the status a poll persists.
RefreshedStatus(payload, session) == Lower(Get(payload.status, session.status))

\* bot.py:500, whether the transition handler is called.
StatusChanged(status, previous_status) == status /= previous_status

\* bot.py:503, whether the session is purged at the end of its turn.
IsFinal(status) == status \in FINAL_STATUSES

Bump(sid, field) == [hist EXCEPT ![sid][field] = @ + 1]

\* The pass returns where it should move to the next session.
Continue_Return(ps) ==
    /\ poll' = At("sleep")
    /\ pass' = [ps EXCEPT !.outcome = "done"]

\* The for loop of _process_payment_updates moves to the next session, or the
\* pass returns and the driver sleeps.
Continue(ps) ==
    IF poll.idx < Len(poll.sessions)
    THEN /\ poll' = [At("item") EXCEPT !.sessions = poll.sessions, !.idx = poll.idx + 1]
         /\ pass' = ps
    ELSE /\ poll' = At("sleep")
         /\ pass' = [ps EXCEPT !.outcome = "done"]

\* An exception that ends the poll task.
Abort_Stop(ps) ==
    /\ poll' = At("stopped")
    /\ pass' = [ps EXCEPT !.outcome = "aborted"]

\* An exception leaves _process_payment_updates; _poll_payment_statuses logs
\* it and sleeps.
Abort(ps) ==
    /\ poll' = At("sleep")
    /\ pass' = [ps EXCEPT !.outcome = "aborted"]

\* bot.py:503-504 after the handler returned (or was not called).
AfterHandler(p, ps) ==
    IF IsFinal(p.status)
    THEN /\ poll' = [p EXCEPT !.pc = "purge"]
         /\ pass' = ps
    ELSE Continue(ps)

\* _poll_payment_statuses calls _process_payment_updates, which loads the
\* sessions.
start_pass ==
    /\ poll.pc = "ready"
    /\ LET loaded == InIdOrder(load_active_sessions(sessions, now))
           ps == [expired |-> {r.id : r \in {x \in sessions : PastExpiry(x, now)}},
                  stale |-> {r.id : r \in {x \in sessions : PastExpiry(x, now)
                                                             /\ LongPastExpiry(x, now)}},
                  loaded |-> {loaded[i].id : i \in 1..Len(loaded)},
                  fetched |-> {}, failed |-> {}, prev_failed |-> pass.failed,
                  partial |-> {}, outcome |-> "running"]
       IN  IF loaded = <<>>
           THEN /\ poll' = At("sleep")
                /\ pass' = [ps EXCEPT !.outcome = "done"]
           ELSE /\ poll' = [At("item") EXCEPT
                               !.sessions = [i \in 1..Len(loaded) |-> PaymentSession(loaded[i])],
                               !.idx = 1]
                /\ pass' = ps
    /\ UNCHANGED <<now, sessions, subs, profiles, seq, closed, restarts, hist, dog, sent, handles, tasks, last_call, request>>

\* asyncio.sleep(status_poll_interval)
poll_sleep ==
    /\ poll.pc = "sleep"
    /\ now + status_poll_interval <= MaxTime
    /\ now' = now + status_poll_interval
    /\ poll' = At("ready")
    /\ UNCHANGED <<sessions, subs, profiles, seq, closed, restarts, pass, hist, dog, sent, handles, tasks, last_call, request>>

\* bot.py:482-484: the session expired locally and is purged.
expire_session ==
    /\ poll.pc = "item"
    /\ IsExpiredLocally(Cur, Cur.status, now)
    /\ sessions' = purge_session(sessions, Cur.id)
    /\ poll' = [poll EXCEPT !.pc = "notify_expired", !.previous_status = Cur.status]
    /\ UNCHANGED <<now, subs, profiles, seq, closed, restarts, pass, hist, dog, sent, handles, tasks, last_call, request>>

\* bot.py:485-491: the "expired" direct notice, then continue.
notify_expired ==
    /\ poll.pc = "notify_expired"
    /\ Continue(pass)
    /\ UNCHANGED <<now, sessions, subs, profiles, seq, closed, restarts, hist, dog, sent, handles, tasks, last_call, request>>

\* The first awaited call of the transition handler for a session.
HandlerEntry(session) == IF session.webhook_url /= None THEN "h_webhook" ELSE "h_profile"

\* A failed poll that drops the row.
RowsAfterFailedPoll_Purging(rows, id) == {r \in rows : r.id /= id}

\* bot.py:495-497: the rows after a poll that raised AnonpayError.
RowsAfterFailedPoll(rows, id) == rows

\* The purge of a final status taken before the transition handler.
AfterRefresh_PurgeFirst(session, status, previous_status) ==
    IF status \in FINAL_STATUSES THEN "purge"
    ELSE IF status /= previous_status THEN HandlerEntry(session)
    ELSE "next"

\* bot.py:499-504: what follows a successful poll: the transition handler
\* when the status changed, else the purge of a final status, else the next
\* session.
AfterRefresh(session, status, previous_status) ==
    IF StatusChanged(status, previous_status) THEN HandlerEntry(session)
    ELSE IF IsFinal(status) THEN "purge"
    ELSE "next"

\* bot.py:493-501 with refresh_session_status: the poll, the UPDATE and the
\* comparison with the previous status.
refresh_session_status(outcome, payload) ==
    /\ poll.pc = "item"
    /\ ~IsExpiredLocally(Cur, Cur.status, now)
    /\ LET previous_status == Cur.status
           status == RefreshedStatus(payload, Cur)
           next == AfterRefresh(Cur, status, previous_status)
           ps == [pass EXCEPT !.fetched = @ \cup {Cur.id}]
       IN  CASE outcome = "AnonpayError" ->
                  /\ sessions' = RowsAfterFailedPoll(sessions, Cur.id)
                  /\ Continue([ps EXCEPT !.failed =
                                  @ \cup {[id |-> Cur.id, expires_at |-> Cur.expires_at]}])
                  /\ UNCHANGED hist
             [] outcome = "not_an_object" ->
                  \* payload.get raises AttributeError
                  /\ Abort(ps)
                  /\ UNCHANGED <<sessions, hist>>
             [] OTHER ->
                  /\ sessions' = update_payment_session_status(sessions, Cur.id, status, payload, now)
                  /\ hist' = [hist EXCEPT ![Cur.id].finished_persisted =
                                 @ \/ (status = "finished" /\ status /= previous_status)]
                  /\ LET p == [poll EXCEPT !.previous_status = previous_status,
                                           !.status = status, !.payload = payload,
                                           !.sessions[poll.idx].status = status]
                         qs == IF status = "paid partially" /\ status /= previous_status
                               THEN [ps EXCEPT !.partial = @ \cup {Cur.id}] ELSE ps
                     IN  IF next \in {"h_webhook", "h_profile"}
                         THEN /\ poll' = [p EXCEPT !.pc = next, !.handler = "running"]
                              /\ pass' = qs
                         ELSE IF next = "purge"
                         THEN /\ poll' = [p EXCEPT !.pc = "purge"]
                              /\ pass' = qs
                         ELSE Continue(qs)
    /\ UNCHANGED <<now, subs, profiles, seq, closed, restarts, dog, sent, handles, tasks, last_call, request>>

\* ---------------------------------------------------- transition handler
\* _handle_status_change returned: bot.py:503.
Return(h) ==
    /\ hist' = h
    /\ AfterHandler([poll EXCEPT !.handler = "returned"], pass)

\* A failed webhook post that leaves the handler as an exception.
AfterWebhook_Raise(ok) == IF ok THEN "h_profile" ELSE "raise"

\* bot.py:517-520: what follows post_webhook, which returned (ok) or raised
\* AnonpayError; the error is caught and logged.
AfterWebhook(ok) == "h_profile"

\* bot.py:514-520: the webhook post of the raw payload; an AnonpayError is
\* logged and the handler goes on.
handle_status_change_webhook(ok) ==
    /\ poll.pc = "h_webhook"
    /\ IF AfterWebhook(ok) = "raise"
       THEN Abort(pass)
       ELSE /\ poll' = [poll EXCEPT !.pc = AfterWebhook(ok),
                                    !.hook = IF ok THEN "posted" ELSE "failed",
                                    !.posts = @ + 1]
            /\ pass' = pass
    /\ UNCHANGED <<now, sessions, subs, profiles, seq, closed, restarts, hist, dog, sent, handles, tasks, last_call, request>>

\* A lookup that answers from the profile the session was created with.
get_payment_profile_by_id_Remembered(ids, id) == id

\* Database.get_payment_profile_by_id: the profile id, or 0 for None.
get_payment_profile_by_id(ids, id) == IF id \in ids THEN id ELSE 0

\* A dispatch that treats a partial payment as a completed one.
Dispatch_PartialAsSuccess(status) ==
    CASE status \in {"finished", "paid partially"} -> "success"
      [] status \in {"failed", "expired", "halted", "refunded"} -> "update"
      [] OTHER -> "nothing"

\* A dispatch that sends the update notice for every status it does not know.
Dispatch_OtherAsUpdate(status) ==
    CASE status = "finished" -> "success"
      [] status = "paid partially" -> "partial"
      [] OTHER -> "update"

\* bot.py:525-540: which branch a status takes.
Dispatch(status) ==
    CASE status = "finished" -> "success"
      [] status = "paid partially" -> "partial"
      [] status \in {"failed", "expired", "halted", "refunded"} -> "update"
      [] OTHER -> "nothing"

\* bot.py:560-565: the awaited call of _handle_successful_payment that
\* follows the role grant, "return" when there is none.
AfterGrant(duration_days, webhook_url) ==
    IF duration_days /= 0 THEN "h_upsert"
    ELSE IF webhook_url /= None THEN "h_activation"
    ELSE "return"

\* A subscription that is given no webhook target.
SubscriptionWebhook_Dropped(session, profile) == None

\* bot.py:561: session.webhook_url or profile["parameters"].get("webhook")
SubscriptionWebhook(session, profile) ==
    IF session.webhook_url /= None THEN session.webhook_url ELSE profile.webhook

\* bot.py:522-556: the guild and profile are resolved and the status is
\* dispatched; guild, role and member say what the chat platform resolves.
handle_status_change_dispatch(guild, role, member) ==
    /\ poll.pc = "h_profile"
    /\ LET id == IF guild THEN get_payment_profile_by_id(profiles, Cur.profile_id) ELSE 0
           branch == Dispatch(poll.status)
           p == [poll EXCEPT !.guild = guild, !.profile = id]
       IN  CASE branch = "success" /\ (~guild \/ id = 0) ->
                  /\ hist' = Bump(Cur.id, "success")
                  /\ AfterHandler([p EXCEPT !.handler = "returned"], pass)
             [] branch = "success" /\ guild /\ id /= 0 ->
                  LET profile == ProfileTable[id]
                      webhook_url == SubscriptionWebhook(Cur, profile)
                      grant == profile.role_id /= 0 /\ role /\ member
                      next == IF grant THEN "h_grant"
                              ELSE AfterGrant(profile.duration_days, webhook_url)
                      q == [p EXCEPT !.webhook_url = webhook_url, !.role = grant]
                  IN  IF next = "return"
                      THEN /\ hist' = Bump(Cur.id, "success")
                           /\ AfterHandler([q EXCEPT !.handler = "returned"], pass)
                      ELSE /\ hist' = Bump(Cur.id, "success")
                           /\ poll' = [q EXCEPT !.pc = next]
                           /\ pass' = pass
             [] branch \in {"partial", "update"} ->
                  /\ poll' = [p EXCEPT !.pc = "h_notice"]
                  /\ UNCHANGED <<pass, hist>>
             [] OTHER -> Return(hist)
    /\ UNCHANGED <<now, sessions, subs, profiles, seq, closed, restarts, dog, sent, handles, tasks, last_call, request>>

\* bot.py:556-558: member.add_roles; a discord.HTTPException is suppressed.
handle_successful_payment_grant ==
    /\ poll.pc = "h_grant"
    /\ LET next == AfterGrant(ProfileTable[poll.profile].duration_days, poll.webhook_url)
       IN  IF next = "return"
           THEN /\ hist' = Bump(Cur.id, "grant")
                /\ AfterHandler([poll EXCEPT !.handler = "returned", !.granted = TRUE], pass)
           ELSE /\ hist' = Bump(Cur.id, "grant")
                /\ poll' = [poll EXCEPT !.pc = next, !.granted = TRUE]
                /\ pass' = pass
    /\ UNCHANGED <<now, sessions, subs, profiles, seq, closed, restarts, dog, sent, handles, tasks, last_call, request>>

\* An expiry that adds the duration as minutes.
SubscriptionExpiry_InMinutes(t, duration_days) == t + duration_days

\* services.py:185, the expiry of a granted subscription.
SubscriptionExpiry(t, duration_days) == t + duration_days * MinutesPerDay

\* A renewal that leaves the last-notified marker of the row as it was.
upsert_subscription_KeepMarker(rows, id, guild_id, user_id, profile_id, role_id, expires_at, webhook_url, t) ==
    IF \E r \in rows : r.guild_id = guild_id /\ r.user_id = user_id
                       /\ r.payment_profile_id = profile_id
    THEN {IF r.guild_id = guild_id /\ r.user_id = user_id /\ r.payment_profile_id = profile_id
          THEN [r EXCEPT !.role_id = role_id, !.expires_at = expires_at,
                         !.webhook_url = webhook_url]
          ELSE r : r \in rows}
    ELSE rows \cup {[id |-> id, guild_id |-> guild_id, user_id |-> user_id,
                     payment_profile_id |-> profile_id, role_id |-> role_id,
                     expires_at |-> expires_at, created_at |-> t,
                     last_notified_at |-> -1, webhook_url |-> webhook_url]}

\* Database.upsert_subscription: INSERT ... ON CONFLICT(guild_id, user_id,
\* payment_profile_id) DO UPDATE.  last_notified_at = -1 stands for NULL.
upsert_subscription(rows, id, guild_id, user_id, profile_id, role_id, expires_at, webhook_url, t) ==
    IF \E r \in rows : r.guild_id = guild_id /\ r.user_id = user_id
                       /\ r.payment_profile_id = profile_id
    THEN {IF r.guild_id = guild_id /\ r.user_id = user_id /\ r.payment_profile_id = profile_id
          THEN [r EXCEPT !.role_id = role_id, !.expires_at = expires_at,
                         !.webhook_url = webhook_url, !.last_notified_at = -1]
          ELSE r : r \in rows}
    ELSE rows \cup {[id |-> id, guild_id |-> guild_id, user_id |-> user_id,
                     payment_profile_id |-> profile_id, role_id |-> role_id,
                     expires_at |-> expires_at, created_at |-> t,
                     last_notified_at |-> -1, webhook_url |-> webhook_url]}

\* bot.py:562-563 with PaymentManager.upsert_subscription; the INSERT of a row
\* whose profile is gone violates the foreign key and raises.
handle_successful_payment_upsert ==
    /\ poll.pc = "h_upsert"
    /\ IF Cur.profile_id \notin profiles
       THEN /\ Abort(pass)
            /\ UNCHANGED <<subs, seq, hist>>
       ELSE LET profile == ProfileTable[poll.profile]
            IN  /\ subs' = upsert_subscription(subs, seq.subscription + 1, Cur.guild_id,
                               Cur.user_id, Cur.profile_id, profile.role_id,
                               SubscriptionExpiry(now, profile.duration_days),
                               poll.webhook_url, now)
                /\ seq' = [seq EXCEPT !.subscription = @ + 1]
                /\ IF poll.webhook_url /= None
                   THEN /\ poll' = [poll EXCEPT !.pc = "h_activation", !.upsert_at = now]
                        /\ pass' = pass
                   ELSE AfterHandler([poll EXCEPT !.handler = "returned", !.upsert_at = now],
                                     pass)
                /\ hist' = hist
    /\ UNCHANGED <<now, sessions, profiles, closed, restarts, dog, sent, handles, tasks, last_call, request>>

\* bot.py:565-572: the webhook post that marks the subscription active; an
\* AnonpayError is logged.
handle_successful_payment_activation(ok) ==
    /\ poll.pc = "h_activation"
    /\ hist' = hist
    /\ AfterHandler([poll EXCEPT !.handler = "returned",
                                 !.activation = IF ok THEN "posted" ELSE "failed",
                                 !.posts = @ + 1], pass)
    /\ UNCHANGED <<now, sessions, subs, profiles, seq, closed, restarts, dog, sent, handles, tasks, last_call, request>>

\* bot.py:527-540: the direct notice of a partial or failed payment.
handle_status_change_notify ==
    /\ poll.pc = "h_notice"
    /\ hist' = IF poll.status = "paid partially" THEN Bump(Cur.id, "partial") ELSE hist
    /\ AfterHandler([poll EXCEPT !.handler = "returned", !.notices = @ + 1], pass)
    /\ UNCHANGED <<now, sessions, subs, profiles, seq, closed, restarts, dog, sent, handles, tasks, last_call, request>>

\* bot.py:503-504: the session reached a final status and is purged.
purge_final ==
    /\ poll.pc = "purge"
    /\ sessions' = purge_session(sessions, Cur.id)
    /\ Continue(pass)
    /\ UNCHANGED <<now, subs, profiles, seq, closed, restarts, hist, dog, sent, handles, tasks, last_call, request>>

\* -------------------------------------------------- subscription watchdog
\* Database.list_expiring_subscriptions(reference_time, advance_notice)
list_expiring_subscriptions(rows, reference_time, advance_notice) ==
    {r \in rows :
        /\ r.expires_at >= reference_time
        /\ r.expires_at <= reference_time + advance_notice * MinutesPerDay
        /\ (r.last_notified_at = -1 \/ r.last_notified_at < reference_time - 1)}

\* A query for the expired subscriptions without its WHERE clause.
list_expired_subscriptions_All(rows, reference_time) == rows

\* Database.list_expired_subscriptions(reference_time)
list_expired_subscriptions(rows, reference_time) ==
    {r \in rows : r.expires_at <= reference_time}

\* Database.mark_subscription_notified: UPDATE ... WHERE id = ?
mark_subscription_notified(rows, id, t) ==
    {IF r.id = id THEN [r EXCEPT !.last_notified_at = t] ELSE r : r \in rows}

\* Database.delete_subscription
delete_subscription(rows, id) == {r \in rows : r.id /= id}

\* No row of the expiring list is passed over.
AlreadyNotified_Never(subscription) == FALSE

\* bot.py:604, the rows of the expiring list that are passed over.
AlreadyNotified(subscription) == subscription.last_notified_at /= -1

\* The subscription a sweep is working on.
CurSub == dog.rows[dog.idx]

\* The position of the first row of the expiring list from position i on that
\* is not passed over; Len(rows) + 1 when there is none.
RECURSIVE NextToNotify(_, _)
NextToNotify(rows, i) ==
    IF i > Len(rows) THEN i
    ELSE IF AlreadyNotified(rows[i]) THEN NextToNotify(rows, i + 1)
    ELSE i

\* bot.py:603-607: the for loop over the expiring list from position i on,
\* and bot.py:609 when it is exhausted.
ExpiringFrom(d, i) ==
    LET j == NextToNotify(d.rows, i)
    IN  IF j <= Len(d.rows)
        THEN [d EXCEPT !.pc = "notify", !.idx = j]
        ELSE [d EXCEPT !.pc = "list_expired", !.rows = <<>>, !.idx = 0]

\* bot.py:610-612: the for loop over the expired list from position i on; the
\* sweep returns when it is exhausted.
ExpiredFrom(d, i) ==
    IF i <= Len(d.rows)
    THEN [d EXCEPT !.pc = "expire", !.idx = i, !.guild = FALSE, !.resolved = FALSE,
                   !.revoked = FALSE, !.posted = FALSE]
    ELSE DogAt("sleep")

\* bot.py:601-603: the sweep takes its reference time and lists the
\* subscriptions that expire within a day.
process_subscriptions ==
    /\ dog.pc = "ready"
    /\ LET expiring == InIdOrder(list_expiring_subscriptions(subs, now, 1))
       IN  dog' = ExpiringFrom([DogAt("notify") EXCEPT !.now = now, !.rows = expiring], 1)
    /\ UNCHANGED <<now, sessions, subs, profiles, seq, closed, restarts, poll, pass, hist, sent, handles, tasks, last_call, request>>

\* Whether _notify_subscription_expiring posts the webhook.
Dispatches(subscription, guild) == guild /\ subscription.webhook_url /= None

\* bot.py:606 with _notify_subscription_expiring: the "expiring soon" webhook
\* is posted when the guild resolves and the row has a webhook target.
notify_subscription_expiring(guild) ==
    /\ dog.pc = "notify"
    /\ sent' = IF Dispatches(CurSub, guild)
               THEN [sent EXCEPT ![CurSub.id] =
                                     [@ EXCEPT !.n = @ + 1, !.at = now, !.run = restarts]]
               ELSE sent
    /\ dog' = [dog EXCEPT !.pc = "mark"]
    /\ UNCHANGED <<now, sessions, subs, profiles, seq, closed, restarts, poll, pass, hist, handles, tasks, last_call, request>>

\* bot.py:607: last_notified_at is written.
mark_notified ==
    /\ dog.pc = "mark"
    /\ subs' = mark_subscription_notified(subs, CurSub.id, now)
    /\ dog' = ExpiringFrom(dog, dog.idx + 1)
    /\ UNCHANGED <<now, sessions, profiles, seq, closed, restarts, poll, pass, hist, sent, handles, tasks, last_call, request>>

\* bot.py:609: the subscriptions that expired by the reference time.
list_expired ==
    /\ dog.pc = "list_expired"
    /\ dog' = ExpiredFrom([dog EXCEPT !.rows = InIdOrder(list_expired_subscriptions(subs, dog.now))],
                          1)
    /\ UNCHANGED <<now, sessions, subs, profiles, seq, closed, restarts, poll, pass, hist, sent, handles, tasks, last_call, request>>

\* bot.py:637-647: whether _expire_subscription calls remove_roles.
Revokes(subscription, guild, role, member) ==
    guild /\ subscription.role_id /= 0 /\ role /\ member

\* The awaited call of _expire_subscription that follows the role revoke,
\* "delete" when there is none.
AfterRevoke(subscription) ==
    IF subscription.webhook_url /= None THEN "expired_webhook" ELSE "delete"

\* A sweep that deletes the row of an expired subscription first.
AfterResolve_DeleteFirst(subscription, guild, role, member) == "delete"

\* bot.py:637-650: the awaited call that follows the resolution of guild,
\* role and member: without guild _expire_subscription returns at once.
AfterResolve(subscription, guild, role, member) ==
    IF ~guild THEN "delete"
    ELSE IF Revokes(subscription, guild, role, member) THEN "revoke"
    ELSE AfterRevoke(subscription)

\* bot.py:611 with _expire_subscription, bot.py:637-644: guild, profile, role
\* and member are resolved.
expire_subscription(guild, role, member) ==
    /\ dog.pc = "expire"
    /\ dog' = [dog EXCEPT !.pc = AfterResolve(CurSub, guild, role, member),
                          !.guild = guild,
                          !.resolved = guild /\ CurSub.role_id /= 0 /\ role /\ member]
    /\ UNCHANGED <<now, sessions, subs, profiles, seq, closed, restarts, poll, pass, hist, sent, handles, tasks, last_call, request>>

\* bot.py:646-648: member.remove_roles; a discord.HTTPException is suppressed.
expire_subscription_revoke ==
    /\ dog.pc = "revoke"
    /\ sent' = [sent EXCEPT ![CurSub.id].revokes = @ + 1]
    /\ dog' = [dog EXCEPT !.pc = AfterRevoke(CurSub), !.revoked = TRUE]
    /\ UNCHANGED <<now, sessions, subs, profiles, seq, closed, restarts, poll, pass, hist, handles, tasks, last_call, request>>

\* bot.py:650-664: the "expired" webhook is posted; an AnonpayError is logged.
expire_subscription_webhook ==
    /\ dog.pc = "expired_webhook"
    /\ dog' = [dog EXCEPT !.pc = "delete", !.posted = TRUE]
    /\ UNCHANGED <<now, sessions, subs, profiles, seq, closed, restarts, poll, pass, hist, sent, handles, tasks, last_call, request>>

\* bot.py:612: the subscription row is deleted.
delete_expired ==
    /\ dog.pc = "delete"
    /\ subs' = delete_subscription(subs, CurSub.id)
    /\ dog' = ExpiredFrom(dog, dog.idx + 1)
    /\ UNCHANGED <<now, sessions, profiles, seq, closed, restarts, poll, pass, hist, sent, handles, tasks, last_call, request>>

\* asyncio.sleep(subscription_check_interval)
watchdog_sleep ==
    /\ dog.pc = "sleep"
    /\ now + subscription_check_interval <= MaxSweepTime
    /\ now' = now + subscription_check_interval
    /\ dog' = DogAt("ready")
    /\ UNCHANGED <<sessions, subs, profiles, seq, closed, restarts, poll, pass, hist, sent, handles, tasks, last_call, request>>

\* Time passes while the watchdog awaits a call of a sweep, or while the bot
\* is down.
ElapseSweep ==
    /\ dog.pc \notin {"ready", "sleep"}
    /\ Tick

\* PaymentManager.upsert_subscription called for a completed payment of user
\* for profile p: the subscription is created or renewed.
renew(user, p) ==
    /\ ~closed
    /\ seq.subscription < MaxUpserts
    /\ p \in profiles
    /\ ProfileTable[p].duration_days /= 0
    /\ subs' = upsert_subscription(subs, seq.subscription + 1, Guild, user, p,
                   ProfileTable[p].role_id,
                   SubscriptionExpiry(now, ProfileTable[p].duration_days),
                   ProfileTable[p].webhook, now)
    /\ seq' = [seq EXCEPT !.subscription = @ + 1]
    /\ sent' = [i \in SubscriptionIds |->
                   IF \E r \in subs' : r.id = i /\ r.guild_id = Guild /\ r.user_id = user
                                       /\ r.payment_profile_id = p
                   THEN NoDispatch ELSE sent[i]]
    /\ UNCHANGED <<now, sessions, profiles, closed, restarts, poll, pass, hist, dog, handles, tasks, last_call, request>>

\* ------------------------------------------------------ start and shutdown
\* A task that goes on after close() cancelled it.
StopTask_Running(task, stopped) == task

\* A task whose cancellation close() does not wait for.
StopTask_NotAwaited(task, stopped) == task

\* bot.py:453-459: task.cancel() and await task; the task ends with the
\* CancelledError raised at the call it awaits.
StopTask(task, stopped) == stopped

\* The live tasks of a driver after close(): none when its task has ended.
LiveAfterClose(task, n) == IF task.pc = "stopped" THEN 0 ELSE n

\* CatPaymentBot.close, bot.py:452-459: the tasks are cancelled at the call
\* they await and close() waits for them to end.
close ==
    /\ ~closed
    /\ closed' = TRUE
    /\ poll' = StopTask(poll, At("stopped"))
    /\ dog' = StopTask(dog, DogAt("stopped"))
    /\ tasks' = [status |-> LiveAfterClose(poll', tasks.status),
                 subscription |-> LiveAfterClose(dog', tasks.subscription)]
    /\ pass' = [pass EXCEPT !.outcome = IF @ = "running" THEN "cancelled" ELSE @]
    /\ UNCHANGED <<now, sessions, subs, profiles, seq, restarts, hist, sent, handles, last_call, request>>

\* bot.py:461: the gateway client is closed.
close_anonpay ==
    /\ closed
    /\ handles.anonpay
    /\ handles' = [handles EXCEPT !.anonpay = FALSE]
    /\ UNCHANGED <<now, sessions, subs, profiles, seq, closed, restarts, poll, pass, hist, dog, sent, tasks, last_call, request>>

\* bot.py:462: the store connection is closed.
close_db ==
    /\ closed
    /\ ~handles.anonpay
    /\ handles.db
    /\ handles' = [handles EXCEPT !.db = FALSE]
    /\ UNCHANGED <<now, sessions, subs, profiles, seq, closed, restarts, poll, pass, hist, dog, sent, tasks, last_call, request>>

\* The bot is started again on the same database file: setup_hook connects
\* (CREATE TABLE IF NOT EXISTS keeps the rows) and creates the tasks.
setup_hook ==
    /\ closed
    /\ ~handles.anonpay
    /\ ~handles.db
    /\ restarts < MaxRestarts
    /\ closed' = FALSE
    /\ restarts' = restarts + 1
    /\ handles' = [anonpay |-> TRUE, db |-> TRUE]
    /\ poll' = At("ready")
    /\ dog' = DogAt("ready")
    /\ tasks' = [status |-> tasks.status + 1, subscription |-> tasks.subscription + 1]
    /\ UNCHANGED <<now, sessions, subs, profiles, seq, pass, hist, sent, last_call, request>>

\* --------------------------------------------------------- /delete
\* A subscriptions table whose foreign key does not cascade.
CascadeSubscriptions_Kept(rows, p) == rows

\* payment_sessions after the DELETE of profile p: ON DELETE CASCADE removes
\* the rows that reference it.
CascadeSessions(rows, p) == {r \in rows : r.payment_profile_id /= p}

\* subscriptions after the DELETE of profile p: ON DELETE CASCADE removes the
\* rows that reference it.
CascadeSubscriptions(rows, p) == {r \in rows : r.payment_profile_id /= p}

\* Database.delete_payment_profile: DELETE FROM payment_profiles WHERE id = ?
delete_payment_profile(ids, p) == ids \ {p}

\* /delete of the profile p: the command answers "not found" for a profile
\* that is not stored; else the one DELETE statement removes the profile and,
\* with foreign_keys = ON, its sessions and subscriptions. A pass or a sweep
\* that holds a copy of a removed row goes on with the copy.
delete(p) ==
    /\ ~closed
    /\ p \in profiles
    /\ profiles' = delete_payment_profile(profiles, p)
    /\ sessions' = CascadeSessions(sessions, p)
    /\ subs' = CascadeSubscriptions(subs, p)
    /\ UNCHANGED <<now, seq, closed, restarts, poll, pass, hist, dog, sent, handles, tasks, last_call, request>>

PollStep ==
    \/ start_pass
    \/ poll_sleep
    \/ expire_session
    \/ notify_expired
    \/ \E outcome \in FetchOutcomes, payload \in StatusPayloads :
          refresh_session_status(outcome, payload)
    \/ \E ok \in BOOLEAN : handle_status_change_webhook(ok)
    \/ \E guild, role, member \in BOOLEAN : handle_status_change_dispatch(guild, role, member)
    \/ handle_successful_payment_grant
    \/ handle_successful_payment_upsert
    \/ \E ok \in BOOLEAN : handle_successful_payment_activation(ok)
    \/ handle_status_change_notify
    \/ purge_final

Next ==
    \/ Elapse
    \/ \E u \in Users, p \in ProfileIds, ok \in BOOLEAN, r \in CheckoutResponses :
          pay(u, p, ok, r, MaxSessions)
    \/ PollStep
    \/ close
    \/ close_anonpay
    \/ close_db
    \/ setup_hook

Spec == Init /\ [][Next]_vars

\* /pay alone: the checkouts the gateway answers and the rows they leave.
NextPay ==
    \/ Tick
    \/ \E u \in Users, p \in ProfileIds, ok \in BOOLEAN, r \in CheckoutResponses :
          pay(u, p, ok, r, MaxCheckouts)

SpecPay == Init /\ [][NextPay]_vars

\* A create_checkout response with every field the bot reads.
FullResponse == [id |-> "a", status |-> "Waiting", status_url |-> "s", url |-> "u"]

\* The reconciliation driver with several sessions in one pass; every
\* checkout is answered in full and the bot is not shut down.
NextTwo ==
    \/ Elapse
    \/ \E u \in Users, p \in ProfileIds : pay(u, p, TRUE, FullResponse, MaxPassSessions)
    \/ PollStep

SpecTwo == Init /\ [][NextTwo]_vars

SweepStep ==
    \/ process_subscriptions
    \/ \E guild \in BOOLEAN : notify_subscription_expiring(guild)
    \/ mark_notified
    \/ list_expired
    \/ \E guild, role, member \in BOOLEAN : expire_subscription(guild, role, member)
    \/ expire_subscription_revoke
    \/ expire_subscription_webhook
    \/ delete_expired
    \/ watchdog_sleep

\* The watchdog with the subscriptions that completed payments create and
\* renew.
NextSweep ==
    \/ ElapseSweep
    \/ \E u \in Users, p \in ProfileIds : renew(u, p)
    \/ SweepStep
    \/ close
    \/ close_anonpay
    \/ close_db
    \/ setup_hook

SpecSweep == Init /\ [][NextSweep]_vars

\* The reconciliation driver while profiles are deleted: checkouts are
\* answered in full and the bot is not shut down.
NextProfiles ==
    \/ Elapse
    \/ \E u \in Users, p \in ProfileIds : pay(u, p, TRUE, FullResponse, MaxPassSessions)
    \/ PollStep
    \/ \E p \in ProfileIds : delete(p)

SpecProfiles == Init /\ [][NextProfiles]_vars

\* Both drivers side by side until close(), with one session, created at
\* minute 0 for the profile with a role and a webhook and no duration: no
\* subscription is
\* ever stored, and the steps listed are the steps a driver can come to.  Time
\* passes while a pass awaits a call and in the sleeps of the drivers.
LivePollStep ==
    \/ start_pass
    \/ poll_sleep
    \/ expire_session
    \/ notify_expired
    \/ \E outcome \in FetchOutcomes, payload \in StatusPayloads :
          refresh_session_status(outcome, payload)
    \/ \E ok \in BOOLEAN : handle_status_change_webhook(ok)
    \/ \E guild, role, member \in BOOLEAN : handle_status_change_dispatch(guild, role, member)
    \/ handle_successful_payment_grant
    \/ \E ok \in BOOLEAN : handle_successful_payment_activation(ok)
    \/ handle_status_change_notify
    \/ purge_final

LiveSweepStep ==
    \/ process_subscriptions
    \/ list_expired
    \/ watchdog_sleep

NextLive ==
    \/ Elapse
    \/ \E u \in Users : pay(u, 2, TRUE, FullResponse, MaxSessions) /\ now = 0
    \/ LivePollStep
    \/ LiveSweepStep
    \/ close

\* The event loop runs every task that is ready and every awaited call
\* returns (the gateway client has a total timeout), so each driver keeps
\* taking steps.
SpecLive == Init /\ [][NextLive]_vars /\ WF_vars(LivePollStep) /\ WF_vars(LiveSweepStep)

\* ------------------------------------------------------- gateway request
\* guild_settings rows: payout address, coin and network of the tenant.
TenantSettings == [payout_address : {"tenant-address"}, ticker_to : {"BTC", "XMR"}, network_to : {"MAINNET"}]

\* profile["parameters"]: a JSON object; None stands for a key that is absent
\* or null, "True" and "False" for the JSON booleans.
ParameterMaps ==
    [address : {None, "profile-address"}, ticker_to : {None, "ETH"},
     direct : {None, "True", "False", "yes"}, amount : {None, "5"},
     discord_role_id : {None, "7"}, duration_days : {None, "30"}]

\* services.py:95, the keys the merge leaves out.
InternalKeys == {"discord_role_id", "duration_days"}

\* services.py:99: str(value).lower() if isinstance(value, bool) else value
RequestValue(value) ==
    CASE value = "True" -> "true"
      [] value = "False" -> "false"
      [] OTHER -> value

\* services.py:88-93, the request before the parameters of the profile.
BaseRequest(guild_settings) ==
    [direct |-> "false", address |-> guild_settings.payout_address,
     ticker_to |-> guild_settings.ticker_to, network_to |-> guild_settings.network_to,
     amount |-> None, discord_role_id |-> None, duration_days |-> None]

\* services.py:88-99: the request given to create_checkout; every parameter
\* of the profile that is kept is written over the entry of the same key.
BuildRequest(guild_settings, parameters) ==
    [key \in DOMAIN BaseRequest(guild_settings) |->
        IF key \notin DOMAIN parameters \/ key \in InternalKeys \/ parameters[key] = None
        THEN BaseRequest(guild_settings)[key]
        ELSE RequestValue(parameters[key])]

\* start_payment_session up to its call of create_checkout.
build_request ==
    /\ ~request.built
    /\ request' = [request EXCEPT !.params = BuildRequest(request.guild_settings, request.parameters),
                                  !.built = TRUE]
    /\ UNCHANGED <<now, sessions, subs, profiles, seq, closed, restarts, poll, pass, hist, dog, sent, handles, tasks, last_call>>

\* A call of start_payment_session for any settings of the tenant and any
\* parameters of the profile.
InitRequest ==
    /\ now = 0
    /\ sessions = {}
    /\ subs = {}
    /\ profiles = ProfileIds
    /\ seq = [session |-> 0, subscription |-> 0]
    /\ closed = FALSE
    /\ restarts = 0
    /\ poll = At("ready")
    /\ pass = NoPass
    /\ hist = [i \in SessionIds |-> NoHist]
    /\ dog = DogAt("ready")
    /\ sent = [i \in SubscriptionIds |-> NoDispatch]
    /\ handles = [anonpay |-> TRUE, db |-> TRUE]
    /\ tasks = [status |-> 1, subscription |-> 1]
    /\ last_call = NoCall
    /\ \E guild_settings \in TenantSettings, parameters \in ParameterMaps :
          request = [guild_settings |-> guild_settings, parameters |-> parameters,
                     params |-> None, built |-> FALSE]

NextRequest ==
    \/ build_request

SpecRequest == InitRequest /\ [][NextRequest]_vars

\* ------------------------------------------------------------ properties
\* C1 (as stated): when a pass has completed, every session that was stored
\* past its local expiry with a status that is not terminal when the pass
\* began is deleted and was not polled in the pass.
C1_ExpiredRemovedWithoutFetch ==
    pass.outcome = "done" =>
        \A id \in pass.expired : id \notin RowIds(sessions) /\ id \notin pass.fetched

\* C1 (within the load window): when a pass has completed, every session that
\* was stored past its local expiry, but by no more than twice the
\* time-to-live, with a status that is not terminal is deleted and was not
\* polled; a session whose expiry lies further back is neither polled nor
\* deleted.
C1_ExpiredInWindowRemovedWithoutFetch ==
    pass.outcome = "done" =>
        /\ \A id \in pass.expired \ pass.stale :
              id \notin RowIds(sessions) /\ id \notin pass.fetched
        /\ \A id \in pass.stale : id \in RowIds(sessions) /\ id \notin pass.fetched

C1_Witness ==
    /\ pass.outcome = "done"
    /\ \E id \in pass.expired \ pass.stale : id \notin RowIds(sessions)

\* C2: a session whose status is terminal is deleted only by the purge at the
\* end of its turn, and when its polled status differed from the previous one
\* only after the transition handler has returned; the handler is never
\* running when the row is deleted.
C2_PurgeAfterHandler ==
    [][\A r \in sessions :
          (r.id \notin RowIds(sessions') /\ r.status \in FINAL_STATUSES) =>
              /\ poll.pc = "purge"
              /\ Cur.id = r.id
              /\ poll.status = r.status
              /\ poll.handler /= "running"
              /\ (poll.status /= poll.previous_status => poll.handler = "returned")]_vars

C2_Witness ==
    /\ poll.pc = "sleep"
    /\ pass.outcome = "done"
    /\ \E id \in pass.fetched : id \notin RowIds(sessions) /\ hist[id].success = 1

\* C3: a step that attempts a role grant or changes the subscriptions is a
\* step of the handler of a change to 'finished'; while a change to 'paid
\* partially' is handled no grant is attempted and no subscription is written.
C3_GrantOnlyWhenFinished ==
    [][/\ ((\E id \in SessionIds : hist'[id].grant /= hist[id].grant) \/ subs' /= subs) =>
              (poll.status = "finished" /\ poll.status /= poll.previous_status
               /\ poll.handler = "running")
       /\ (poll'.status = "paid partially" => ~poll'.granted /\ poll'.upsert_at = -1)]_vars

C3_Witness ==
    /\ poll.pc = "h_upsert"
    /\ poll.status = "finished"
    /\ poll.granted
    /\ hist[Cur.id].grant = 1

\* C4 (as stated): a session whose change to 'finished' was persisted is not
\* deleted before _handle_successful_payment was entered for it at least once.
C4_FinishedEffectsAtLeastOnce ==
    \A id \in SessionIds :
        (hist[id].finished_persisted /\ id \notin RowIds(sessions)) => hist[id].success >= 1

\* C5 (as stated): a poll whose payload carries the status the row already
\* stores leaves the row's status and last_payload and the subscriptions as
\* they were.
C5_EqualStatusPollKeepsPayload ==
    [][poll.pc = "item" =>
          \A r \in sessions, r2 \in sessions' :
              (r.id = Cur.id /\ r2.id = r.id /\ r2.last_payload.kind = "status"
               /\ r2.last_payload.status = r.status) =>
                  (r2.status = r.status /\ r2.last_payload = r.last_payload /\ subs' = subs)]_vars
\* C6 (as stated): when a pass has completed, every session whose poll failed
\* in the pass before was polled in this one.
C6_FailedPollPolledAgain ==
    (pass.outcome = "done" /\ poll.pc = "sleep") =>
        \A f \in pass.prev_failed : f.id \in pass.fetched

\* C6 (amended): a poll that fails leaves the rows of payment_sessions, the
\* subscriptions and the record of handler effects as they were and starts no
\* transition handler; when the next pass has completed, the session was
\* polled in it unless its local expiry had passed by then.
C6_FailedPollLeavesSessionForNextPass ==
    [][/\ (pass'.failed \ pass.failed /= {}) =>
              /\ sessions' = sessions
              /\ subs' = subs
              /\ hist' = hist
              /\ poll'.handler = "none"
              /\ poll'.pc \in {"item", "sleep"}
       /\ (pass'.outcome = "done" /\ poll'.pc = "sleep") =>
              \A f \in pass'.prev_failed : f.id \in pass'.fetched \/ f.expires_at < now']_vars

C6_Witness ==
    /\ pass.outcome = "done"
    /\ poll.pc = "sleep"
    /\ \E f \in pass.prev_failed : f.id \in pass.fetched /\ f.id \in RowIds(sessions)

C8_Case(p) ==
    /\ p.pc = "purge"
    /\ p.status = "finished"
    /\ p.previous_status \notin {"finished", "paid partially", "failed", "expired",
                                 "halted", "refunded"}
    /\ ProfileTable[p.sessions[p.idx].profile_id].role_id /= 0
    /\ ProfileTable[p.sessions[p.idx].profile_id].duration_days /= 0

\* A subscription of the session's guild, requester and profile that expires
\* days days after minute t.
C8_Subscribed(session, t, days) ==
    \E s \in subs :
        /\ s.guild_id = session.guild_id
        /\ s.user_id = session.user_id
        /\ s.payment_profile_id = session.profile_id
        /\ s.expires_at = t + days * 24 * 60

C8_HandledWhenResolved ==
    C8_Case(poll) =>
        /\ poll.role => poll.granted
        /\ (poll.guild /\ poll.profile /= 0) =>
              /\ poll.upsert_at >= 0
              /\ C8_Subscribed(Cur, poll.upsert_at, ProfileTable[Cur.profile_id].duration_days)
        /\ ~poll.guild => (~poll.granted /\ poll.upsert_at = -1)

C9_OneRowPerAnonpayId ==
    \A r1, r2 \in sessions : r1.anonpay_id = r2.anonpay_id => r1.id = r2.id
C11_ExpiredRevokedOnceThenDeleted ==
    [][\A r \in subs :
          (dog.pc = "delete" /\ r.id \notin RowIds(subs') /\ r.role_id /= 0) =>
              sent[r.id].revokes = 1]_vars
\* C12 (as stated): close() is taken only while each driver is between two
\* passes: neither task is at an awaited call of a pass or sweep when it is
\* cancelled.
C12_CloseBetweenPasses ==
    [][(~closed /\ closed') =>
          (poll.pc \in {"ready", "sleep"} /\ dog.pc \in {"ready", "sleep"})]_vars
\* C13: whenever the gateway client or the store connection is closed, both
\* background tasks have stopped, and no task takes a step while a handle is
\* closed.
C13_HandlesReleasedAfterDrivers ==
    [][/\ (~handles'.anonpay \/ ~handles'.db) => (poll'.pc = "stopped" /\ dog'.pc = "stopped")
       /\ (~handles.anonpay \/ ~handles.db) =>
              (sessions' = sessions /\ subs' = subs /\ hist' = hist /\ sent' = sent)]_vars

C13_Witness ==
    /\ closed
    /\ ~handles.anonpay
    /\ ~handles.db
    /\ pass.outcome = "cancelled"
C15_FailedPollDoesNotAbortPass ==
    [][/\ (pass'.failed \ pass.failed /= {}) =>
              /\ pass'.outcome \in {"running", "done"}
              /\ poll.idx < Len(poll.sessions) =>
                    /\ poll'.pc = "item"
                    /\ poll'.sessions = poll.sessions
                    /\ poll'.idx = poll.idx + 1
       /\ (pass'.outcome = "done" /\ poll'.pc = "sleep") =>
              \A id \in pass'.loaded : id \in pass'.fetched \/ id \notin RowIds(sessions')]_vars

C15_Witness ==
    /\ pass.outcome = "done"
    /\ Cardinality(pass.loaded) = 2
    /\ \E f \in pass.failed : f.id = 1
    /\ 2 \in pass.fetched
    /\ 2 \notin {f.id : f \in pass.failed}
\* C16 (as stated): no row of payment_sessions was written for a response
\* without id: no stored anonpay_id is the text that str() gives for a missing
\* id, or empty.
C16_NoRowWithoutReferenceId ==
    \A r \in sessions : r.anonpay_id \notin {"None", ""}
\* C17: a call of start_payment_session that raises leaves payment_sessions
\* and its id counter as they were; the call raises when create_checkout
\* failed and when the response has an empty id or lacks a URL; a row is
\* written only by a call whose gateway call returned, and then exactly one.
C17_FailedStartLeavesStoreUnchanged ==
    [][(last_call' /= last_call \/ sessions' /= sessions) =>
          /\ last_call'.raised => (sessions' = sessions /\ seq' = seq)
          /\ ~last_call'.ok => last_call'.raised
          /\ ~last_call'.complete => last_call'.raised
          /\ (RowIds(sessions') \ RowIds(sessions) /= {}) =>
                /\ last_call'.ok
                /\ ~last_call'.raised
                /\ Cardinality(sessions') = Cardinality(sessions) + 1]_vars

C17_Witness ==
    /\ Cardinality(sessions) = 1
    /\ last_call.ok
    /\ ~last_call.complete
    /\ last_call.raised
\* The (guild, user, profile) a subscription is for.
C18_Key(r) == <<r.guild_id, r.user_id, r.payment_profile_id>>

\* C18: no two rows of subscriptions are for the same (guild, user, profile);
\* a grant leaves every other row as it was and leaves one row for its key that
\* carries the profile's role and webhook, the expiry counted from the grant
\* and no last-notified marker, so that a sweep within a day of its expiry
\* lists it and does not pass it over; a row that was there keeps its id and
\* creation time.
C18_GrantReplacesSubscription ==
    [][/\ \A a, b \in subs' : C18_Key(a) = C18_Key(b) => a = b
       /\ seq'.subscription /= seq.subscription =>
             \E r \in subs' :
                /\ subs' \ {r} \subseteq subs
                /\ \A old \in subs \ subs' :
                      /\ C18_Key(old) = C18_Key(r)
                      /\ old.id = r.id
                      /\ old.created_at = r.created_at
                /\ Cardinality(subs') = Cardinality({C18_Key(x) : x \in subs \cup {r}})
                /\ r.role_id = ProfileTable[r.payment_profile_id].role_id
                /\ r.webhook_url = ProfileTable[r.payment_profile_id].webhook
                /\ r.expires_at
                      = now + ProfileTable[r.payment_profile_id].duration_days * MinutesPerDay
                /\ r.last_notified_at = -1
                /\ r \in list_expiring_subscriptions(subs', r.expires_at, 1)
                /\ ~AlreadyNotified(r)]_vars

\* A subscription that was renewed after its creation, and for which the
\* "expiring soon" webhook was posted after the renewal.
C18_Witness ==
    \E r \in subs :
        /\ seq.subscription = 2
        /\ Cardinality(subs) = 1
        /\ r.expires_at > r.created_at
                             + ProfileTable[r.payment_profile_id].duration_days * MinutesPerDay
        /\ sent[r.id].n = 1
        /\ r.last_notified_at /= -1
\* C19: every row of payment_sessions and every row of subscriptions
\* references a stored profile, in every state: the deletion of a profile
\* leaves none of its sessions and subscriptions, and no session or
\* subscription is written for a profile that is gone.
C19_NoRowOfDeletedProfile ==
    /\ \A r \in sessions : r.payment_profile_id \in profiles
    /\ \A r \in subs : r.payment_profile_id \in profiles

\* A profile was deleted while it had a session and a subscription, both
\* are gone, and the pass that was handling the session goes on.
C19_Witness ==
    /\ 1 \notin profiles
    /\ seq.session = 1
    /\ seq.subscription = 1
    /\ sessions = {}
    /\ subs = {}
    /\ poll.pc \in {"h_activation", "purge"}
    /\ Cur.id = 1
    /\ Cur.profile_id = 1
\* C20 (as stated): no session row stays in the store forever. A row whose
\* expiry lies more than twice the time-to-live back is loaded by no later
\* pass, and only a pass that loaded a row deletes it; so the claim requires
\* that no row is that old while the driver is between two passes.
C20_NoRowOutOfReach ==
    \A r \in sessions : ~(LongPastExpiry(r, now) /\ poll.pc \in {"ready", "sleep"})

\* A row that is out of the load window between two passes is still stored
\* after every step of the driver.
C20_OutOfReachRowStays ==
    [][\A r \in sessions :
          (LongPastExpiry(r, now) /\ poll.pc \in {"ready", "sleep"}) => r \in sessions']_vars
\* A pass has completed and a row is out of the load window.
C20_Witness ==
    /\ pass.outcome = "done"
    /\ poll.pc = "sleep"
    /\ \E r \in sessions : LongPastExpiry(r, now)
\* C21: a driver's task has ended only when the bot is closed; while the bot
\* is not closed, a driver that sleeps wakes up and a driver that is at the
\* head of its loop starts a pass, and after a pass that an exception ended
\* the reconciliation driver starts another pass (unless the clock of the
\* model has reached the minute past which no sleep ends).
C21_DriversKeepRunning ==
    /\ [](poll.pc = "stopped" => closed)
    /\ [](dog.pc = "stopped" => closed)
    /\ (poll.pc = "sleep" /\ pass.outcome = "aborted")
          ~> (pass.outcome \in {"running", "done"} \/ closed
              \/ now + status_poll_interval > MaxTime)
    /\ (poll.pc = "sleep")
          ~> (poll.pc = "ready" \/ closed \/ now + status_poll_interval > MaxTime)
    /\ (poll.pc = "ready") ~> (poll.pc \in {"item", "sleep"} \/ closed)
    /\ (dog.pc = "sleep")
          ~> (dog.pc = "ready" \/ closed \/ now + subscription_check_interval > MaxSweepTime)
    /\ (dog.pc = "ready") ~> (dog.pc \notin {"ready", "stopped"} \/ closed)

\* A pass ended with an exception, the driver slept and is at the head of its
\* loop again.
C21_Witness ==
    /\ ~closed
    /\ pass.outcome = "aborted"
    /\ poll.pc = "ready"
\* C22 (as stated): after a poll that succeeded, the transition handler is
\* entered if and only if the polled status and the status the session had
\* before differ when both are put in lower case.
C22_HandlerIffStatusDiffersIgnoringCase ==
    [][(/\ poll.pc = "item"
        /\ pass'.fetched /= pass.fetched
        /\ pass'.failed = pass.failed
        /\ pass'.outcome /= "aborted"
        /\ Cur.id \in RowIds(sessions')) =>
          LET polled == RowById(sessions', Cur.id).status
          IN  (poll'.handler = "running") <=> (Lower(polled) /= Lower(Cur.status))]_vars
\* C23 (as stated): a session that is past its local expiry when its turn in
\* a pass comes is not polled, whatever status it stores.
C23_PastExpiryNeverPolled ==
    [][(poll.pc = "item" /\ Cur.expires_at < now) => pass'.fetched = pass.fetched]_vars

\* C23 (sessions that are not final): a session that is past its local expiry
\* when its turn comes and whose stored status is not final is not polled, and
\* the step the pass takes for it deletes its row; a session that stores a final
\* status is polled whether it is past its expiry or not.
C23_PastExpiryOpenNeverPolled ==
    [][/\ (poll.pc = "item" /\ Cur.expires_at < now /\ Cur.status \notin FINAL_STATUSES) =>
             /\ pass'.fetched = pass.fetched
             /\ (poll'.pc \notin {"item", "stopped"} =>
                    (poll'.pc = "notify_expired" /\ Cur.id \notin RowIds(sessions')))
       /\ (poll.pc = "item" /\ Cur.status \in FINAL_STATUSES /\ poll' /= poll /\ ~closed') =>
             Cur.id \in pass'.fetched]_vars

\* A session past its expiry with a status that is not final was deleted in
\* its turn without a poll.
C23_Witness ==
    /\ poll.pc = "notify_expired"
    /\ Cur.expires_at < now
    /\ Cur.status \notin FINAL_STATUSES
    /\ Cur.id \notin pass.fetched
    /\ Cur.id \notin RowIds(sessions)
\* The subscriptions a sweep at minute t has to notify: the expiry lies within
\* a day from t and the last notification is unset or more than a minute old.
C24_Due(rows, t) ==
    {r \in rows : /\ t <= r.expires_at
                  /\ r.expires_at <= t + MinutesPerDay
                  /\ (r.last_notified_at = -1 \/ r.last_notified_at + 1 < t)}

\* C24 (as stated): a sweep walks all subscriptions that are due at its
\* reference time, in the order of their ids, passes over none of them, posts
\* the "expiring soon" event for each and then writes its last_notified_at.
C24_DueSubscriptionsNotified ==
    [][/\ (dog.pc = "ready" /\ dog'.pc \notin {"ready", "stopped"} /\ C24_Due(subs, now) /= {}) =>
             /\ dog'.pc = "notify"
             /\ dog'.idx = 1
             /\ {dog'.rows[i] : i \in 1..Len(dog'.rows)} = C24_Due(subs, now)
       /\ (dog.pc = "notify" /\ dog'.pc \notin {"notify", "stopped"}) =>
             /\ sent'[CurSub.id].n = sent[CurSub.id].n + 1
             /\ dog'.pc = "mark"
       /\ (dog.pc = "mark" /\ dog'.pc \notin {"mark", "stopped"}) =>
             /\ \A r \in subs' : r.id = CurSub.id => r.last_notified_at = now
             /\ dog.idx < Len(dog.rows) => (dog'.pc = "notify" /\ dog'.idx = dog.idx + 1)]_vars

\* C25 (as stated): when the sweep deletes the row of an expired
\* subscription, remove_roles was called for it if role and member resolved,
\* and the "expired" event was posted to its webhook target.
C25_RevokedAndPostedBeforeDelete ==
    [][\A r \in subs :
          r.id \notin RowIds(subs') =>
             /\ dog.pc = "delete"
             /\ CurSub.id = r.id
             /\ dog.resolved => dog.revoked
             /\ r.webhook_url /= None => dog.posted]_vars

\* C25 (when the guild resolves): a row of subscriptions is deleted only by
\* the sweep, at the end of the expiry handling of that row, and its expiry
\* was not later than the reference time of the sweep; when the guild
\* resolved, remove_roles was called by then if role and member resolved and
\* the "expired" event was posted if the row has a webhook target, the revoke
\* before the post; when the guild did not resolve, neither was done.  The
\* expiry handling grants no role.
C25_RevokeThenPostThenDelete ==
    [][/\ \A r \in subs :
             r.id \notin RowIds(subs') =>
                /\ dog.pc = "delete"
                /\ CurSub.id = r.id
                /\ CurSub.expires_at <= dog.now
                /\ dog.guild => /\ dog.resolved <=> dog.revoked
                                /\ (CurSub.webhook_url /= None) <=> dog.posted
                /\ ~dog.guild => (~dog.revoked /\ ~dog.posted)
       /\ (dog.pc = "revoke" /\ dog' /= dog) => (~dog.revoked /\ ~dog.posted)
       /\ (dog.pc = "expired_webhook" /\ dog' /= dog) => (dog.revoked <=> dog.resolved)
       /\ dog.pc \in {"expire", "revoke", "expired_webhook", "delete"} => hist' = hist]_vars

\* The sweep is about to delete a row after it called remove_roles and posted
\* the "expired" event for it.
C25_Witness ==
    /\ dog.pc = "delete"
    /\ dog.guild
    /\ dog.revoked
    /\ dog.posted
    /\ CurSub.id \in RowIds(subs)
\* The ids of the rows of the list a sweep walks.
C26_Listed == {dog.rows[i].id : i \in 1..Len(dog.rows)}

\* C26: the list of expiring subscriptions of a sweep holds only stored rows
\* whose expiry lies within a day from its reference time, and its list of
\* expired subscriptions only stored rows whose expiry is not later than the
\* reference time; a sweep walks no other list, and a step of a sweep changes no
\* row, posts no event and revokes no role for a subscription that is not in
\* the list it walks.  So a subscription whose expiry is later than a day after
\* the reference time when the lists are taken is left as it is.
C26_OthersUntouched ==
    [][/\ (dog.pc = "ready" /\ dog'.pc \notin {"ready", "stopped"}) =>
             \A i \in 1..Len(dog'.rows) :
                /\ dog'.rows[i] \in subs
                /\ now <= dog'.rows[i].expires_at
                /\ dog'.rows[i].expires_at <= now + MinutesPerDay
       /\ (dog.pc = "list_expired" /\ dog'.pc \notin {"list_expired", "stopped"}) =>
             \A i \in 1..Len(dog'.rows) :
                /\ dog'.rows[i] \in subs
                /\ dog'.rows[i].expires_at <= dog.now
       /\ dog'.rows /= dog.rows => (dog.pc \in {"ready", "list_expired"} \/ dog'.rows = <<>>)
       /\ dog' /= dog =>
             \A r \in subs :
                r.id \notin C26_Listed => (r \in subs' /\ sent'[r.id] = sent[r.id])]_vars

\* A sweep handles one subscription while another, whose expiry is later than
\* a day after the reference time, is stored and was never notified.
C26_Witness ==
    /\ dog.pc \in {"notify", "mark"}
    /\ \E r \in subs :
          /\ r.id /= CurSub.id
          /\ r.expires_at > dog.now + MinutesPerDay
          /\ r.last_notified_at = -1
          /\ sent[r.id] = NoDispatch

\* C27: in the transition handler a webhook post that fails for a session
\* with a webhook target blocks nothing: the handler goes on to resolve the
\* profile; when a handler whose post failed returns, the pass was not
\* aborted, a finished payment whose guild, profile, role and member resolve
\* had its role granted and, with a duration, its subscription upserted, a
\* partial, failed, expired, halted or refunded payment had its direct notice
\* sent, and a terminal status comes to the purge, which deletes the session.
C27_NoticeStatuses == {"paid partially", "failed", "expired", "halted", "refunded"}

C27_FailedPostDoesNotBlock ==
    [][/\ (poll.pc = "h_webhook" /\ poll' /= poll /\ ~closed')
          => /\ poll'.pc = "h_profile"
             /\ poll'.handler = "running"
             /\ pass' = pass
       /\ (poll.hook = "failed" /\ poll.handler = "running" /\ poll'.handler /= "running"
           /\ ~closed')
          => /\ pass'.outcome /= "aborted"
             /\ (poll.status = "finished" /\ poll'.guild /\ poll'.profile /= 0)
                => /\ poll'.role => poll'.granted
                   /\ ProfileTable[poll'.profile].duration_days /= 0
                      => /\ poll'.upsert_at >= 0
                         /\ \E r \in subs' : /\ r.user_id = Cur.user_id
                                              /\ r.guild_id = Cur.guild_id
                                              /\ r.payment_profile_id = Cur.profile_id
             /\ poll.status \in C27_NoticeStatuses => poll'.notices = 1
             /\ poll.status \in C27_NoticeStatuses \cup {"finished"} => poll'.pc = "purge"
       /\ (poll.pc = "purge" /\ poll.hook = "failed" /\ poll' /= poll /\ ~closed')
          => Cur.id \notin RowIds(sessions')]_vars

\* A post failed, and yet the role was granted, the subscription upserted and
\* the session is about to be purged.
C27_Witness ==
    /\ poll.hook = "failed"
    /\ poll.pc = "purge"
    /\ poll.granted
    /\ poll.upsert_at >= 0

\* A post failed, and the direct notice was sent all the same.
C27_WitnessNotice == poll.hook = "failed" /\ poll.pc = "purge" /\ poll.notices = 1

\* C28: when a session changes to 'finished' and its profile has a duration,
\* the subscription that is created or renewed carries the webhook target of
\* the session, or that of the profile when the session has none; and when
\* there is such a target, a second webhook event, the activation, is posted
\* after the upsert and before the handler returns.
C28_Target(session) ==
    IF session.webhook_url /= None THEN session.webhook_url
    ELSE ProfileTable[session.profile_id].webhook

C28_SubscriptionCarriesTargetAndActivationFollows ==
    [][/\ (poll.pc = "h_upsert" /\ poll' /= poll /\ ~closed')
          => /\ \E r \in subs' : /\ r.user_id = Cur.user_id
                                  /\ r.guild_id = Cur.guild_id
                                  /\ r.payment_profile_id = Cur.profile_id
                                  /\ r.webhook_url = C28_Target(Cur)
             /\ C28_Target(Cur) /= None
                => /\ poll'.pc = "h_activation"
                   /\ poll'.activation = "none"
                   /\ poll'.upsert_at = now
       /\ (poll.pc = "h_activation" /\ poll' /= poll /\ ~closed')
          => /\ poll'.activation \in {"posted", "failed"}
             /\ poll'.posts = poll.posts + 1
             /\ ProfileTable[Cur.profile_id].duration_days /= 0 => poll.upsert_at >= 0
       /\ (poll.handler = "running" /\ poll'.handler = "returned" /\ poll.status = "finished"
           /\ poll'.guild /\ poll'.profile /= 0
           /\ ProfileTable[poll'.profile].duration_days /= 0)
          => /\ poll'.upsert_at >= 0
             /\ C28_Target(Cur) /= None => poll'.activation /= "none"]_vars

\* The subscription was upserted with the target of the session and the
\* activation event was posted.
C28_Witness ==
    /\ poll.pc = "purge"
    /\ poll.status = "finished"
    /\ poll.upsert_at >= 0
    /\ poll.activation = "posted"
    /\ \E r \in subs : r.user_id = Cur.user_id /\ r.webhook_url = Cur.webhook_url
                        /\ r.webhook_url /= None

\* C29: when the profile of a session is gone by the time the transition
\* handler resolves it, the handler grants no role and upserts no
\* subscription, while the notifications of the status are still attempted:
\* the webhook post of a session with a target was made before the lookup,
\* and a partial, failed, expired, halted or refunded payment gets its direct
\* notice.
C29_NoticeStatuses == {"paid partially", "failed", "expired", "halted", "refunded"}

C29_ProfileGone == poll.handler /= "none" /\ Cur.profile_id \notin profiles

C29_NoEffectButNotifications ==
    [][/\ (poll.pc = "h_profile" /\ C29_ProfileGone /\ poll' /= poll)
          => /\ subs' = subs
             /\ hist'[Cur.id].grant = hist[Cur.id].grant
             /\ poll'.pc \notin {"h_grant", "h_upsert", "h_activation"}
             /\ Cur.webhook_url /= None => poll.hook \in {"posted", "failed"} /\ poll.posts = 1
             /\ poll.status \in C29_NoticeStatuses => poll'.pc = "h_notice"
             /\ poll.status = "finished"
                => /\ poll'.pc = "purge"
                   /\ ~poll'.granted
                   /\ poll'.upsert_at = -1
       /\ (poll.pc = "h_notice" /\ C29_ProfileGone /\ poll' /= poll)
          => /\ poll'.notices = 1
             /\ ~poll'.granted
             /\ poll'.upsert_at = -1
             /\ subs' = subs]_vars

\* The profile is gone and the handler of a finished payment returned after
\* the webhook post, with the guild resolved.
C29_Witness ==
    /\ C29_ProfileGone
    /\ poll.status = "finished"
    /\ poll.pc = "purge"
    /\ poll.guild
    /\ poll.hook = "posted"

\* The profile is gone and the direct notice was sent.
C29_WitnessNotice == C29_ProfileGone /\ poll.pc = "purge" /\ poll.notices = 1

\* C30, as stated: the handler of a change to 'paid partially' sends one
\* direct notice and posts no webhook, whether or not the session has a
\* webhook target.
C30_OneNoticeNoWebhook ==
    [][(poll.pc = "h_notice" /\ poll.status = "paid partially" /\ poll' /= poll /\ ~closed')
          => poll'.notices = 1 /\ poll'.posts = 0]_vars

\* C30, amended: the handler of a change to 'paid partially' sends one direct
\* notice, grants no role, upserts no subscription and posts no activation
\* event; the only webhook post is that of the raw payload, made once when
\* the session has a webhook target and not at all when it has none.
C30_OneNoticeAndOnlyTheRawPost ==
    [][/\ (poll.pc = "h_profile" /\ poll.status = "paid partially" /\ poll' /= poll
           /\ ~closed')
          => poll'.pc = "h_notice" /\ subs' = subs /\ hist'[Cur.id].grant = hist[Cur.id].grant
       /\ (poll.pc = "h_notice" /\ poll.status = "paid partially" /\ poll' /= poll
           /\ ~closed')
          => /\ poll'.handler = "returned"
             /\ poll'.notices = 1
             /\ hist'[Cur.id].partial = hist[Cur.id].partial + 1
             /\ poll'.posts = (IF Cur.webhook_url /= None THEN 1 ELSE 0)
             /\ poll'.activation = "none"
             /\ ~poll'.granted
             /\ poll'.upsert_at = -1
             /\ subs' = subs]_vars

\* The notice of a partial payment was sent for a session with a webhook
\* target, after the post of the raw payload.
C30_Witness ==
    /\ poll.pc = "purge"
    /\ poll.status = "paid partially"
    /\ poll.handler = "returned"
    /\ poll.notices = 1
    /\ Cur.webhook_url /= None
    /\ poll.posts = 1

\* C31: a change to a status outside finished, paid partially, failed,
\* expired, halted and refunded is persisted, and its handler sends no direct
\* notice, changes no role and no subscription and leaves the session row in
\* the store: the pass moves on without a purge.
C31_EffectStatuses == {"finished", "paid partially", "failed", "expired", "halted", "refunded"}

C32_InternalKeysLeftOutAndDirectDefaults ==
    request.built
    => /\ request.params.discord_role_id = None
       /\ request.params.duration_days = None
       /\ request.parameters.direct = None => request.params.direct = "false"
       /\ request.params.network_to = request.guild_settings.network_to
       /\ request.parameters.address = None
          => request.params.address = request.guild_settings.payout_address
       /\ request.parameters.ticker_to = None
          => request.params.ticker_to = request.guild_settings.ticker_to

\* C33: a session may go from its initial status to a terminal one in a
\* single pass: when the first successful poll of a session returns a
\* terminal status, the handler of that status is started with the initial
\* status as the previous one, a handler that returns leads to the purge, and
\* the purge deletes the row while the same pass is running.
C33_Terminal == {"finished", "paid partially", "failed", "expired", "halted", "refunded"}

C33_NeverPolled(id) ==
    id \in RowIds(sessions) /\ RowById(sessions, id).last_payload.kind = "checkout"

C33_InitialToTerminalInOnePass ==
    [][/\ (poll.pc = "item" /\ C33_NeverPolled(Cur.id) /\ poll'.pc \notin {"item", "sleep", "stopped"}
           /\ poll'.status \in C33_Terminal)
          => /\ poll'.handler = "running"
             /\ poll'.previous_status = RowById(sessions, Cur.id).status
             /\ RowById(sessions', Cur.id).status = poll'.status
             /\ pass'.outcome = "running"
       /\ (poll.handler = "running" /\ poll'.handler /= "running" /\ ~closed'
           /\ poll.status \in C33_Terminal)
          => /\ poll'.handler = "returned"
             /\ poll'.pc = "purge"
             /\ pass'.outcome = "running"
       /\ (poll.pc = "purge" /\ poll' /= poll /\ ~closed')
          => /\ Cur.id \notin RowIds(sessions')
             /\ pass.outcome = "running"]_vars

\* The first pass, at minute 0, polled the session once, ran the handler of
\* 'finished' and deleted the row.
C33_Witness ==
    /\ now = 0
    /\ restarts = 0
    /\ ~closed
    /\ pass.outcome = "done"
    /\ pass.fetched = {1}
    /\ sessions = {}
    /\ hist[1].success = 1

\* C34: a subscription that is renewed while a sweep is in progress is
\* neither revoked nor deleted by that sweep: whenever the sweep calls
\* remove_roles for a subscription or deletes its row, the expiry stored for
\* the row at that moment is not later than the reference time of the sweep.
C34_StoredExpiry(id) == RowById(subs, id).expires_at

C34_SweepSparesRenewedSubscription ==
    [][(dog.pc \in {"revoke", "delete"} /\ dog' /= dog /\ ~closed'
        /\ CurSub.id \in RowIds(subs))
          => C34_StoredExpiry(CurSub.id) <= dog.now]_vars

\* C35: the sessions of a pass are independent units of work: a failure
\* that is no gateway polling failure while one session is processed does not
\* keep the pass from the sessions listed after it, so a running pass ends
\* only at the last session of its list.
C35_FailureDoesNotStopThePass ==
    [][(pass.outcome = "running" /\ pass'.outcome \in {"done", "aborted"})
          => poll.idx = Len(poll.sessions)]_vars

\* C36: the webhook event with subscription_active = true is posted only
\* when a subscription was created or renewed for the payment, that is only
\* when the profile has a duration.
C36_ActivationOnlyWithSubscription ==
    [][(poll.pc = "h_activation" /\ poll'.posts = poll.posts + 1)
          => /\ ProfileTable[Cur.profile_id].duration_days /= 0
             /\ poll.upsert_at >= 0]_vars

\* C37: a sweep writes last_notified_at for a subscription only after it
\* dispatched the "expiring soon" event for it: the row has a webhook target
\* and the event was posted in this sweep.
C37_MarkedOnlyAfterDispatch ==
    [][(dog.pc = "mark" /\ dog' /= dog /\ ~closed'
        /\ CurSub.id \in RowIds(subs')
        /\ RowById(subs', CurSub.id).last_notified_at /= -1)
          => /\ CurSub.webhook_url /= None
             /\ sent[CurSub.id].n > 0
             /\ sent[CurSub.id].at >= dog.now]_vars

\* C38: the sweep deletes the row of an expired subscription only when the
\* member no longer holds the role through it: the guild resolved, and
\* remove_roles was called when role and member resolved; an unresolved guild
\* leaves the row in place for a later sweep.
C38_DeletedOnlyWhenGuildResolved ==
    [][(dog.pc = "delete" /\ dog' /= dog /\ ~closed' /\ CurSub.id \in RowIds(subs)
        /\ CurSub.id \notin RowIds(subs'))
          => /\ dog.guild
             /\ dog.resolved => dog.revoked]_vars

\* C39: a successful poll whose payload has no status field keeps the stored
\* status of the session: no transition handler is started, and the session
\* comes to the purge of that pass only if the stored status was terminal
\* already.
C39_Terminal == {"finished", "paid partially", "failed", "expired", "halted", "refunded"}

C39_NoStatusFieldKeepsStatus ==
    [][(/\ poll.pc = "item"
        /\ pass'.fetched /= pass.fetched
        /\ pass'.failed = pass.failed
        /\ pass'.outcome /= "aborted"
        /\ Cur.id \in RowIds(sessions')
        /\ RowById(sessions', Cur.id).last_payload = [status |-> None, kind |-> "status"])
          => /\ RowById(sessions', Cur.id).status = Cur.status
             /\ poll'.handler /= "running"
             /\ poll'.pc = "purge" <=> Cur.status \in C39_Terminal]_vars
====
